---------------------------- MODULE Spec2Model ----------------------------
(***************************************************************************)
(* State-machine model of class YOLOv9 in src/yolo/engine/inference copy.py *)
(*                                                                         *)
(* One detector object is shared by the caller threads of Threads.  The    *)
(* object's fields are the variables conf_threshold .. img_height; the     *)
(* locals of each running detect() call are the per-thread functions pc,   *)
(* arg, input_tensor, outputs and result.                                  *)
(*                                                                         *)
(* Numbers.  Class scores and the three thresholds are floats in [0,1] in   *)
(* the source; here they are percentages, so that `>' is the comparison    *)
(* the code makes.  Box coordinates are integers in model-input pixels; the *)
(* float32 divide/multiply of the rescale is exact rational arithmetic     *)
(* followed by the truncation of astype(np.int32).                         *)
(*                                                                         *)
(* Construction.  __init__ (lines 19-39) assigns the thresholds and        *)
(* original_size and loads the model; it never calls create_session(), so  *)
(* the attribute `classes' does not exist when it returns.  (Line 39 calls *)
(* initialize_model() without its `path' argument and create_session uses  *)
(* `yaml' which the file never imports; the model takes both as the calls  *)
(* they are written to be, since no later state exists otherwise.)         *)
(***************************************************************************)
EXTENDS Integers, Sequences, FiniteSets, TLC

VARIABLES conf_threshold, iou_threshold, score_threshold,
          image_width, image_height, input_width, input_height,
          session, classes,
          img, img_width, img_height,
          pc, arg, input_tensor, outputs, result

config == <<conf_threshold, iou_threshold, score_threshold,
            image_width, image_height, input_width, input_height, session>>
shared == <<img, img_width, img_height>>
locals == <<pc, arg, input_tensor, outputs, result>>
vars == <<config, classes, shared, locals>>

----------------------------------------------------------------------------
(* Bounds of the model *)

\* anchors (rows) of the raw output tensor of the loaded model
NumAnchors == 2

\* the defaults of __init__, as percentages: score_thres, conf_thres, iou_thres
DefaultScorePercent == 10
DefaultConfPercent == 40
DefaultIouPercent == 40
\* the default original_size
DefaultWidth == 1280
DefaultHeight == 720
\* side of the square model input read from the ONNX session
ModelInputSize == 640

Threads == {"t1", "t2"}
None == "None"

\* the names a class-mapping file can hold: the whole table, or one that is
\* shorter than the model's class count
ClassNames == <<"person", "bicycle">>
NumClasses == Len(ClassNames)
ClassTables == {ClassNames, SubSeq(ClassNames, 1, 1)}
\* the attribute self.classes: missing until create_session() assigns it
NoClasses == [loaded |-> FALSE, names |-> <<>>]
Loaded(names) == [loaded |-> TRUE, names |-> names]

\* original_size = (width, height)
OriginalSizes == {<<DefaultWidth, DefaultHeight>>}
\* img.shape[:2] = (height, width) of the images handed to detect(): one of
\* original_size, one of another size
ImageShapes == {<<DefaultHeight, DefaultWidth>>, <<480, 640>>}

\* (x_center, y_center, width, height) in model-input pixels
Boxes == {<<10, 50, 40, 40>>, <<12, 50, 40, 40>>, <<30, 50, 80, 40>>}
\* class scores: at each threshold the constructor can be given, and above
Scores == {DefaultScorePercent, DefaultConfPercent, 90}
Anchors == [box : Boxes, cls : [1..NumClasses -> Scores]]
Tensors == [1..NumAnchors -> Anchors]

\* conf_thres and score_thres: the defaults, and each the other's default
ConfThresholds == {DefaultConfPercent, DefaultScorePercent}
ScoreThresholds == {DefaultScorePercent, DefaultConfPercent}

----------------------------------------------------------------------------
(* Arithmetic *)

\* astype(np.int32) and C++ integer division: truncation toward zero
TruncDiv(a, b) == IF a >= 0 THEN a \div b ELSE -((-a) \div b)

Max2(a, b) == IF a >= b THEN a ELSE b
Min2(a, b) == IF a <= b THEN a ELSE b

SeqMax(s) == CHOOSE m \in {s[i] : i \in 1..Len(s)} : \A i \in 1..Len(s) : s[i] <= m

\* np.argmax: the first index holding the maximum (0-based)
ArgMax(s) == (CHOOSE i \in 1..Len(s) :
                 /\ s[i] = SeqMax(s)
                 /\ \A j \in 1..(i - 1) : s[j] < s[i]) - 1


----------------------------------------------------------------------------
(* postprocess(), lines 75-98 *)

\* the maximum over predictions[:, 3:], a slice that starts one field early and
\* takes the box height in
AnchorScoreFromHeight(a) == Max2(a.box[4], SeqMax(a.cls))

\* line 77: scores = np.max(predictions[:, 4:], axis=1)
AnchorScore(a) == SeqMax(a.cls)

\* the mask with >= for >
SurvivesAtThreshold(score) == score >= conf_threshold

\* lines 78-79: the mask scores > self.conf_threshold
Survives(score) == score > conf_threshold

\* lines 76-80: the rows that pass the mask, in anchor order, each with its
\* score and np.argmax class.  `anchor' is the 0-based row of the tensor the
\* candidate came from; the code does not keep it, the properties refer to it.
Decode(tensor) ==
    LET rows == [i \in 1..Len(tensor) |->
                    [anchor |-> i - 1,
                     box |-> tensor[i].box,
                     score |-> AnchorScore(tensor[i]),
                     class_id |-> ArgMax(tensor[i].cls)]]
    IN SelectSeq(rows, LAMBDA r : Survives(r.score))

\* the rescale with the size preprocess() recorded (img_width, img_height) in
\* place of original_size
RescaleToImage(b) ==
    << TruncDiv(b[1] * img_width, input_width),
       TruncDiv(b[2] * img_height, input_height),
       TruncDiv(b[3] * img_width, input_width),
       TruncDiv(b[4] * img_height, input_height) >>

\* lines 85-88: divide by the model input size, multiply by original_size
\* (image_width, image_height), truncate to int32
Rescale(b) ==
    << TruncDiv(b[1] * image_width, input_width),
       TruncDiv(b[2] * image_height, input_height),
       TruncDiv(b[3] * image_width, input_width),
       TruncDiv(b[4] * image_height, input_height) >>

\* cv::Rect_::area and operator& on (x, y, width, height): NMSBoxes reads the
\* four numbers it is given as top-left corner and size
RectArea(r) == r[3] * r[4]

RectIntersect(a, b) ==
    LET x1 == Max2(a[1], b[1])
        y1 == Max2(a[2], b[2])
        w == Min2(a[1] + a[3], b[1] + b[3]) - x1
        h == Min2(a[2] + a[4], b[2] + b[4]) - y1
    IN IF w <= 0 \/ h <= 0 THEN <<0, 0, 0, 0>> ELSE <<x1, y1, w, h>>

\* rectOverlap = 1 - jaccardDistance, as <<numerator, denominator>>; two
\* rectangles of no area have distance 0, overlap 1
rectOverlap(a, b) ==
    LET Aa == RectArea(a)
        Ab == RectArea(b)
        Aab == RectArea(RectIntersect(a, b))
    IN IF Aa + Ab <= 0 THEN <<1, 1>> ELSE <<Aab, Aa + Ab - Aab>>

\* overlap > threshold, the threshold a percentage
OverlapExceeds(a, b, pct) ==
    LET o == rectOverlap(a, b) IN o[1] * 100 > pct * o[2]

\* GetMaxScoreIndex: the indices with score > threshold, stable-sorted by
\* descending score (equal scores keep index order)
ScoreBefore(scores, i, j) ==
    scores[i] > scores[j] \/ (scores[i] = scores[j] /\ i < j)

GetMaxScoreIndex(scores, threshold) ==
    LET S == {i \in 1..Len(scores) : scores[i] > threshold}
        rank(i) == Cardinality({j \in S : ScoreBefore(scores, j, i)}) + 1
    IN [k \in 1..Cardinality(S) |-> CHOOSE i \in S : rank(i) = k]

\* NMSFast_: walk the sorted indices, keep one when its overlap with every
\* index kept so far is <= the threshold
RECURSIVE NMSFast(_, _, _, _, _)
NMSFast(boxes, order, k, kept, nms_threshold) ==
    IF k > Len(order) THEN kept
    ELSE LET idx == order[k]
             keep == \A j \in 1..Len(kept) :
                        ~OverlapExceeds(boxes[idx], boxes[kept[j]], nms_threshold)
         IN NMSFast(boxes, order, k + 1,
                    IF keep THEN Append(kept, idx) ELSE kept, nms_threshold)

\* cv2.dnn.NMSBoxes(bboxes, scores, score_threshold, nms_threshold): the kept
\* indices (1-based here), in the order they were kept
NMSBoxes(boxes, scores, score_thr, nms_thr) ==
    NMSFast(boxes, GetMaxScoreIndex(scores, score_thr), 1, <<>>, nms_thr)

\* per-class suppression (what yolo.utils.multiclass_nms would do): a box is
\* only compared with kept boxes of its own class
SuppressPerClass(cand, boxes) ==
    LET scores == [i \in 1..Len(cand) |-> cand[i].score]
        order == GetMaxScoreIndex(scores, score_threshold)
        KeptOf(c) ==
            LET sub == SelectSeq(order, LAMBDA i : cand[i].class_id = c)
            IN NMSFast(boxes, sub, 1, <<>>, iou_threshold)
        keptSet == UNION {{KeptOf(c)[j] : j \in 1..Len(KeptOf(c))} :
                             c \in 0..(NumClasses - 1)}
    IN SelectSeq(order, LAMBDA i : i \in keptSet)

\* line 89: the call, on the rescaled (x_center, y_center, w, h) boxes and
\* the scores of all classes together
Suppress(cand, boxes) ==
    NMSBoxes(boxes, [i \in 1..Len(cand) |-> cand[i].score],
             score_threshold, iou_threshold)

\* line 91: boxes[indices], scores[indices], class_ids[indices].  NMSBoxes
\* hands an empty result back as the empty tuple, and indexing a numpy array
\* with () selects the whole array.
Selected(indices, n) ==
    IF indices = <<>> THEN [i \in 1..n |-> i] ELSE indices

\* yolo.utils.xywh2xyxy: centre and size to corners, in the int32 array
xywh2xyxy(b) ==
    << TruncDiv(2 * b[1] - b[3], 2), TruncDiv(2 * b[2] - b[4], 2),
       TruncDiv(2 * b[1] + b[3], 2), TruncDiv(2 * b[2] + b[4], 2) >>

\* a box handed back without the conversion to corners
DetectionBoxRaw(b) == b

\* line 91: the box of a detection is xywh2xyxy of the selected box
DetectionBox(b) == xywh2xyxy(b)

\* lines 100-101: self.classes[class_id]; the attribute is missing until
\* create_session() has run, and a list raises IndexError past its end.
\* The name of the exception raised, or None.
LookupError(class_id) ==
    IF ~classes.loaded THEN "AttributeError"
    ELSE IF class_id + 1 > Len(classes.names) THEN "IndexError"
    ELSE None

get_label_name(class_id) == classes.names[class_id + 1]

Returned(detections) == [kind |-> "return", value |-> detections, error |-> None]
Raised(name) == [kind |-> "raise", value |-> <<>>, error |-> name]
NoResult == [kind |-> "none", value |-> <<>>, error |-> None]

\* lines 76-91: the candidates the loop of line 91 walks, in its order, each
\* with its rescaled (x_center, y_center, w, h) box
SelectedCandidates(tensor) ==
    LET cand == Decode(tensor)
        boxes == [i \in 1..Len(cand) |-> Rescale(cand[i].box)]
        sel == Selected(Suppress(cand, boxes), Len(cand))
    IN [k \in 1..Len(sel) |-> [cand[sel[k]] EXCEPT !.box = boxes[sel[k]]]]

\* lines 92-97: the dict appended for one candidate
Detection(c) ==
    [class_index |-> c.class_id,
     confidence |-> c.score,
     box |-> DetectionBox(c.box),
     class_name |-> get_label_name(c.class_id),
     anchor |-> c.anchor]

\* a loop that stops at the first failed lookup and hands back what it has
RECURSIVE AssemblePartial(_, _, _)
AssemblePartial(sel, k, detections) ==
    IF k > Len(sel) THEN Returned(detections)
    ELSE IF LookupError(sel[k].class_id) # None
         THEN Returned(detections)
         ELSE AssemblePartial(sel, k + 1, Append(detections, Detection(sel[k])))

\* lines 90-98: the loop over the selected candidates; an exception of
\* get_label_name leaves the function and the list built so far is dropped
RECURSIVE Assemble(_, _, _)
Assemble(sel, k, detections) ==
    IF k > Len(sel) THEN Returned(detections)
    ELSE IF LookupError(sel[k].class_id) # None
         THEN Raised(LookupError(sel[k].class_id))
         ELSE Assemble(sel, k + 1, Append(detections, Detection(sel[k])))

\* lines 75-98
postprocess(tensor) == Assemble(SelectedCandidates(tensor), 1, <<>>)

----------------------------------------------------------------------------
(* The detector and its callers *)

NoImage == [content |-> 0, shape |-> <<0, 0>>]
NoTensor == <<>>
Images(contents) == [content : contents, shape : ImageShapes]

\* the two inputs the runtime is asked about when callers run side by side
Contents == {1, 2}
\* a run with one caller looks at one input, over every tensor
OneContent == {1}

\* raw outputs the loaded model gives in the runs with two callers
ConcTensors ==
    {t \in Tensors : /\ \A i \in 1..NumAnchors : t[i].box = <<10, 50, 40, 40>>
                     /\ \A i \in 1..NumAnchors : t[i].cls[2] = DefaultScorePercent
                     /\ \A i \in 2..NumAnchors : t[i].cls[1] = DefaultScorePercent}

Idle == [t \in Threads |-> "idle"]

\* __init__, lines 19-39: thresholds, original_size and the model's input
\* size are fixed here; img_height/img_width are None, `classes' is not set
InitFields ==
    /\ conf_threshold \in ConfThresholds
    /\ score_threshold \in ScoreThresholds
    /\ iou_threshold = DefaultIouPercent
    /\ \E size \in OriginalSizes : image_width = size[1] /\ image_height = size[2]
    /\ input_width = ModelInputSize
    /\ input_height = ModelInputSize
    /\ img = NoImage
    /\ img_width = 0
    /\ img_height = 0
    /\ pc = Idle
    /\ arg = [t \in Threads |-> NoImage]
    /\ input_tensor = [t \in Threads |-> 0]
    /\ outputs = [t \in Threads |-> NoTensor]
    /\ result = [t \in Threads |-> NoResult]

Init ==
    /\ InitFields
    /\ classes = NoClasses
    /\ session \in [OneContent -> Tensors]

\* two callers start after create_session() has loaded the whole table
ConcInit ==
    /\ InitFields
    /\ classes = Loaded(ClassNames)
    /\ session \in [Contents -> ConcTensors]

\* create_session(), lines 47-53
create_session(t, names) ==
    /\ pc[t] = "idle"
    /\ classes' = Loaded(names)
    /\ UNCHANGED <<config, shared, locals>>

\* detect(), line 104: self.img = img
DetectStore(t, image) ==
    /\ pc[t] = "idle"
    /\ img' = image
    /\ arg' = [arg EXCEPT ![t] = image]
    /\ pc' = [pc EXCEPT ![t] = "stored"]
    /\ UNCHANGED <<config, classes, img_width, img_height,
                   input_tensor, outputs, result>>

\* preprocess(), line 66: self.img_height, self.img_width = self.img.shape[:2]
PreprocessShape(t) ==
    /\ pc[t] = "stored"
    /\ img_height' = img.shape[1]
    /\ img_width' = img.shape[2]
    /\ pc' = [pc EXCEPT ![t] = "shaped"]
    /\ UNCHANGED <<config, classes, img, arg, input_tensor, outputs, result>>

\* preprocess(), lines 67-72: the tensor is made from self.img, resized to the
\* model input size: what is left of the image is its content
PreprocessTensor(t) ==
    /\ pc[t] = "shaped"
    /\ input_tensor' = [input_tensor EXCEPT ![t] = img.content]
    /\ pc' = [pc EXCEPT ![t] = "preprocessed"]
    /\ UNCHANGED <<config, classes, shared, arg, outputs, result>>

\* detect(), line 106: outputs = self.session.run(...)[0]
RunSession(t) ==
    /\ pc[t] = "preprocessed"
    /\ outputs' = [outputs EXCEPT ![t] = session[input_tensor[t]]]
    /\ pc' = [pc EXCEPT ![t] = "inferred"]
    /\ UNCHANGED <<config, classes, shared, arg, input_tensor, result>>

\* detect(), line 107: return self.postprocess(outputs)
DetectPostprocess(t) ==
    /\ pc[t] = "inferred"
    /\ result' = [result EXCEPT ![t] = postprocess(outputs[t])]
    /\ pc' = [pc EXCEPT ![t] = "done"]
    /\ UNCHANGED <<config, classes, shared, arg, input_tensor, outputs>>

\* the caller takes the result (or the exception) and the call's locals go
Return(t) ==
    /\ pc[t] = "done"
    /\ pc' = [pc EXCEPT ![t] = "idle"]
    /\ arg' = [arg EXCEPT ![t] = NoImage]
    /\ input_tensor' = [input_tensor EXCEPT ![t] = 0]
    /\ outputs' = [outputs EXCEPT ![t] = NoTensor]
    /\ result' = [result EXCEPT ![t] = NoResult]
    /\ UNCHANGED <<config, classes, shared>>

\* one caller
Next ==
    \/ \E names \in ClassTables : create_session("t1", names)
    \/ \E image \in Images(DOMAIN session) : DetectStore("t1", image)
    \/ PreprocessShape("t1")
    \/ PreprocessTensor("t1")
    \/ RunSession("t1")
    \/ DetectPostprocess("t1")
    \/ Return("t1")

Spec == Init /\ [][Next]_vars

\* two callers, their detect() calls interleaved line by line
ConcNext ==
    \E t \in Threads :
        \/ \E image \in Images(DOMAIN session) : DetectStore(t, image)
        \/ PreprocessShape(t)
        \/ PreprocessTensor(t)
        \/ RunSession(t)
        \/ DetectPostprocess(t)
        \/ Return(t)

ConcSpec == ConcInit /\ [][ConcNext]_vars

----------------------------------------------------------------------------
(* Properties *)

\* a detect() call of t has come back with a detection list
Finished(t) == pc[t] = "done" /\ result[t].kind = "return"

\* the tensor row a detection was decoded from
AnchorOf(t, d) == outputs[t][d.anchor + 1]

\* the largest class score of a tensor row, said without AnchorScore
IsMaxOf(v, a) ==
    /\ \E c \in 1..NumClasses : a.cls[c] = v
    /\ \A c \in 1..NumClasses : a.cls[c] <= v

\* C1: every detection a detect() call returns has a confidence strictly
\* greater than conf_threshold, the confidence being the largest class score of
\* its anchor; an anchor whose largest class score is <= conf_threshold is
\* the anchor of no returned detection.
C1_SurvivorsAboveThreshold ==
    \A t \in Threads : Finished(t) =>
        /\ \A k \in 1..Len(result[t].value) :
              LET d == result[t].value[k]
              IN /\ d.confidence > conf_threshold
                 /\ IsMaxOf(d.confidence, AnchorOf(t, d))
        /\ \A i \in 1..Len(outputs[t]) :
              (\A c \in 1..NumClasses : outputs[t][i].cls[c] <= conf_threshold)
                  => \A k \in 1..Len(result[t].value) :
                        result[t].value[k].anchor # i - 1

\* a call that returned a detection and dropped an anchor whose score is
\* exactly conf_threshold
C1_Witness ==
    \E t \in Threads :
        /\ Finished(t)
        /\ Len(result[t].value) >= 1
        /\ \E i \in 1..Len(outputs[t]) :
              /\ IsMaxOf(conf_threshold, outputs[t][i])
              /\ \A k \in 1..Len(result[t].value) :
                    result[t].value[k].anchor # i - 1

\* C2 (as claimed): the returned list is ordered by descending confidence,
\* ties by ascending class id, then by original candidate index.
C2_OrderedByConfidenceClassIndex ==
    \A t \in Threads : Finished(t) =>
        \A k, l \in 1..Len(result[t].value) : k < l =>
            LET a == result[t].value[k]
                b == result[t].value[l]
            IN \/ a.confidence > b.confidence
               \/ /\ a.confidence = b.confidence
                  /\ \/ a.class_index < b.class_index
                     \/ /\ a.class_index = b.class_index
                        /\ a.anchor < b.anchor

\* intersection-over-union of two corner boxes (x1, y1, x2, y2) exceeds pct
\* percent; a box of no area has IoU 0 with everything
CornerArea(b) == Max2(b[3] - b[1], 0) * Max2(b[4] - b[2], 0)
CornerInter(a, b) ==
    Max2(Min2(a[3], b[3]) - Max2(a[1], b[1]), 0)
        * Max2(Min2(a[4], b[4]) - Max2(a[2], b[2]), 0)
IoUExceeds(a, b, pct) ==
    LET i == CornerInter(a, b)
        u == CornerArea(a) + CornerArea(b) - i
    IN u > 0 /\ i * 100 > pct * u

\* C3 (as claimed): no two returned detections overlap beyond iou_threshold,
\* and the highest-scoring candidate above score_threshold is returned.
C3_NoKeptPairOverlaps ==
    \A t \in Threads : Finished(t) =>
        /\ \A k, l \in 1..Len(result[t].value) : k # l =>
              ~IoUExceeds(result[t].value[k].box, result[t].value[l].box,
                          iou_threshold)
        /\ \A i \in 1..Len(outputs[t]) :
              (/\ \E c \in 1..NumClasses : outputs[t][i].cls[c] > conf_threshold
               /\ \E c \in 1..NumClasses : outputs[t][i].cls[c] > score_threshold
               /\ \A j \in 1..Len(outputs[t]) : \A c \in 1..NumClasses :
                     \/ outputs[t][j].cls[c] < AnchorScore(outputs[t][i])
                     \/ (outputs[t][j].cls[c] = AnchorScore(outputs[t][i]) /\ i <= j))
                  => \E k \in 1..Len(result[t].value) :
                        result[t].value[k].anchor = i - 1

\* C4 (as claimed): whatever the interleaving, a detect() call that has come
\* back returns the detections of the image it was given.
C4_EachCallReturnsItsOwnImage ==
    \A t \in Threads :
        pc[t] = "done" => result[t] = postprocess(session[arg[t].content])

\* C5 (as claimed): the class table is loaded when the constructor returns, so
\* every detect() call in progress finds it loaded, and no step of detect()
\* changes it.
C5_ClassTableLoadedAtInit ==
    [][/\ \A t \in Threads : pc'[t] # "idle" => classes'.loaded
       /\ (\E t \in Threads : pc[t] # "idle") => classes' = classes]_vars

\* the class id of the first class score that is the row's largest
ClassOf(a) ==
    CHOOSE c \in 0..(NumClasses - 1) :
        /\ IsMaxOf(a.cls[c + 1], a)
        /\ \A e \in 0..(c - 1) : a.cls[e + 1] < a.cls[c + 1]

C7_BoxesInsideImage ==
    \A t \in Threads : Finished(t) =>
        \A k \in 1..Len(result[t].value) :
            LET b == result[t].value[k].box
            IN /\ 0 <= b[1] /\ b[1] <= b[3] /\ b[3] <= image_width
               /\ 0 <= b[2] /\ b[2] <= b[4] /\ b[4] <= image_height

\* C7 (amended): every returned box has x1 <= x2 and y1 <= y2; nothing
\* clamps the corners to the image.
C7_CornersOrdered ==
    \A t \in Threads : Finished(t) =>
        \A k \in 1..Len(result[t].value) :
            LET b == result[t].value[k].box
            IN b[1] <= b[3] /\ b[2] <= b[4]

\* a returned box whose left edge is outside the image
C7_Witness ==
    \E t \in Threads :
        /\ Finished(t)
        /\ \E k \in 1..Len(result[t].value) : result[t].value[k].box[1] < 0

\* C8: when no anchor has a class score above conf_threshold, detect()
\* returns the empty list and raises nothing, whether or not the class table
\* is loaded.
C8_NoCandidatesReturnsEmpty ==
    \A t \in Threads : pc[t] = "done" =>
        ((\A i \in 1..Len(outputs[t]) : \A c \in 1..NumClasses :
              outputs[t][i].cls[c] <= conf_threshold)
            => result[t] = Returned(<<>>))

\* a call on a tensor whose best score is exactly conf_threshold, made before
\* any class table was loaded
C8_Witness ==
    \E t \in Threads :
        /\ pc[t] = "done"
        /\ ~classes.loaded
        /\ Len(outputs[t]) = NumAnchors
        /\ \A i \in 1..Len(outputs[t]) : \A c \in 1..NumClasses :
              outputs[t][i].cls[c] <= conf_threshold
        /\ \E i \in 1..Len(outputs[t]) : IsMaxOf(conf_threshold, outputs[t][i])

\* the decoded rows of a call's tensor that NMS considers: score above both
\* thresholds, with the rectangle NMSBoxes is given for it
NmsCandidates(t) ==
    {i \in 1..Len(outputs[t]) :
        \E c \in 1..NumClasses :
            /\ outputs[t][i].cls[c] > conf_threshold
            /\ outputs[t][i].cls[c] > score_threshold}
NmsRect(t, i) == Rescale(outputs[t][i].box)
RowScore(t, i) ==
    CHOOSE v \in Scores : IsMaxOf(v, outputs[t][i])
RowBefore(t, i, j) ==
    RowScore(t, i) > RowScore(t, j) \/ (RowScore(t, i) = RowScore(t, j) /\ i < j)
ReturnedRows(t) ==
    {result[t].value[k].anchor + 1 : k \in 1..Len(result[t].value)}

ScaledCorners(b, width, height) ==
    LET cx == TruncDiv(b[1] * width, input_width)
        cy == TruncDiv(b[2] * height, input_height)
        w == TruncDiv(b[3] * width, input_width)
        h == TruncDiv(b[4] * height, input_height)
    IN << TruncDiv(2 * cx - w, 2), TruncDiv(2 * cy - h, 2),
          TruncDiv(2 * cx + w, 2), TruncDiv(2 * cy + h, 2) >>

BoxesScaledToOriginalSize ==
    \A t \in Threads : Finished(t) =>
        \A k \in 1..Len(result[t].value) :
            LET d == result[t].value[k]
            IN d.box = ScaledCorners(AnchorOf(t, d).box, image_width, image_height)

\* C10: no step changes image_width, image_height or the three thresholds,
\* and every returned box is its anchor's box scaled to (image_width,
\* image_height), the original_size of the constructor, whatever size
\* preprocess() recorded for the image of the call.
C10_RescaleUsesOriginalSize ==
    [][/\ UNCHANGED <<image_width, image_height,
                     conf_threshold, score_threshold, iou_threshold>>
       /\ BoxesScaledToOriginalSize']_vars

\* a call on an image of another size than original_size returned a box
C10_Witness ==
    \E t \in Threads :
        /\ Finished(t)
        /\ Len(result[t].value) >= 1
        /\ arg[t].shape = <<img_height, img_width>>
        /\ <<img_width, img_height>> # <<image_width, image_height>>

============================================================================
